---- MODULE Spec2Model ----
(***************************************************************************)
(* The SBIR awards dashboard of src/streamlit_app.py as a state machine.   *)
(*                                                                         *)
(* One script run is a sequence of steps: the sidebar widgets are read,    *)
(* fetch_sbir_awards is called through the st.cache_data memoization, and  *)
(* the fetched list is turned into a DataFrame that is normalised,         *)
(* filtered, summed, grouped three times and shown as a table.  A step     *)
(* that raises ends the run with the exception recorded.                   *)
(***************************************************************************)
EXTENDS Integers, Sequences, FiniteSets, TLC

VARIABLES
    cache,            \* st.cache_data store of fetch_sbir_awards, by company name
    requests,         \* outbound requests.get calls issued so far, by company name
    pc,               \* position of the current script run
    company_name,     \* sidebar text input
    agency_filter,    \* sidebar multiselect
    phase_filter,     \* sidebar multiselect
    response,         \* what the request of this run met (NoResponse: none issued)
    data,             \* value returned by fetch_sbir_awards
    df,               \* the DataFrame: [columns, rows]
    total_awarded,
    total_projects,
    state_summary,
    agency_summary,
    phase_summary,
    table,            \* the frame handed to st.dataframe
    bound,            \* names assigned so far in this run
    messages,         \* st.error / st.warning elements shown in this run
    exception         \* the exception that ended the run, or "none"

vars == <<cache, requests, pc, company_name, agency_filter, phase_filter,
          response, data, df, total_awarded, total_projects, state_summary,
          agency_summary, phase_summary, table, bound, messages, exception>>

-----------------------------------------------------------------------------
(* Bounds *)

\* longest list of award objects a response carries
MaxLen == 2
\* requests.get calls per company name the model follows
MaxRequests == 2

-----------------------------------------------------------------------------
(* Cell values.  Text is a sequence of characters, so that numeric parsing *)
(* works on the characters.  "null" is JSON null (None), "nan" is the NaN  *)
(* pandas puts where a record has no such key or a parse fails.            *)

Str(s) == [kind |-> "str", s |-> s, n |-> 0]
Num(n) == [kind |-> "num", s |-> <<>>, n |-> n]
Null == [kind |-> "null", s |-> <<>>, n |-> 0]
NaN == [kind |-> "nan", s |-> <<>>, n |-> 0]

\* pandas.isna
IsNA(v) == v.kind \in {"null", "nan"}

DOD == <<"D", "O", "D">>
NSF == <<"N", "S", "F">>
EPA == <<"E", "P", "A">>
PhaseI == <<"P", "h", "a", "s", "e", " ", "I">>
PhaseII == <<"P", "h", "a", "s", "e", " ", "I", "I">>
CA == <<"C", "A">>
TX == <<"T", "X">>

\* the columns the detail table selects
TableColumns ==
    {"agency", "phase", "program", "award_amount", "award_year", "city", "state"}

\* An award object with every expected key.
Award(agency, phase, amount, state) ==
    [c \in TableColumns |->
        CASE c = "agency" -> agency
          [] c = "phase" -> phase
          [] c = "award_amount" -> amount
          [] c = "state" -> state
          [] c = "program" -> Str(<<"S", "B", "I", "R">>)
          [] c = "award_year" -> Num(2020)
          [] c = "city" -> Str(<<"L", "A">>)]

\* The award objects the API serves in the model: the two of scenario A,
\* one whose amount is the text N/A, one with a negative amount and a null
\* state, and one that has only two of the keys, its amount a JSON number.
ScenarioDOD == Award(Str(DOD), Str(PhaseI), Str(<<"5", "0", "0", "0", "0">>), Str(CA))
ScenarioNSF == Award(Str(NSF), Str(PhaseII), Str(<<"7", "5", "0", "0", "0">>), Str(CA))
UnparseableAward == Award(Str(DOD), Str(PhaseII), Str(<<"N", "/", "A">>), Str(TX))
NegativeAward == Award(Str(NSF), Str(PhaseI), Str(<<"-", "1", "0", "0">>), Null)
SparseAward ==
    [c \in {"agency", "award_amount"} |-> IF c = "agency" THEN Str(DOD) ELSE Num(20)]

AwardObjects ==
    {ScenarioDOD, ScenarioNSF, UnparseableAward, NegativeAward, SparseAward}

RECURSIVE ListsUpTo(_, _)
ListsUpTo(S, n) ==
    IF n = 0 THEN {<<>>}
    ELSE LET shorter == ListsUpTo(S, n - 1)
         IN shorter \cup {Append(l, x) : l \in {m \in shorter : Len(m) = n - 1}, x \in S}

AwardLists == ListsUpTo(AwardObjects, MaxLen)
\* the responses of the two-company session carry at most one award object
SessionLists == {<<>>, <<ScenarioDOD>>, <<SparseAward>>}

-----------------------------------------------------------------------------
(* HTTP responses *)

EmptyBody == [kind |-> "empty", items |-> <<>>, keys |-> {}, results |-> <<>>]
NotJsonBody == [kind |-> "text", items |-> <<>>, keys |-> {}, results |-> <<>>]
\* the JSON array L
BareList(L) == [kind |-> "array", items |-> L, keys |-> {}, results |-> <<>>]
\* the JSON object {"results": L}
ResultsObject(L) ==
    [kind |-> "object", items |-> <<>>, keys |-> {"results"}, results |-> L]
\* the JSON object {"error": "x"}
ErrorObject ==
    [kind |-> "object", items |-> <<>>, keys |-> {"error"}, results |-> <<>>]

BodiesOf(lists) ==
    {EmptyBody, NotJsonBody, ErrorObject}
        \cup {BareList(L) : L \in lists} \cup {ResultsObject(L) : L \in lists}

\* What requests.get meets: the call raises, or a response with a body.
NetworkFailure == [net |-> "fail", body |-> EmptyBody]
Received(b) == [net |-> "ok", body |-> b]
NoResponse == [net |-> "none", body |-> EmptyBody]

OutcomesOf(lists) == {NetworkFailure} \cup {Received(b) : b \in BodiesOf(lists)}

\* response.json(): raises unless the body is a JSON document
JsonDecodes(body) == body.kind \in {"array", "object"}

\* fetch_sbir_awards reading the wrong member of a dict response
FetchResultWrongMember(body) ==
    IF ~JsonDecodes(body)
    THEN [value |-> <<>>, msgs |-> <<"error">>]
    ELSE IF body.kind = "array"
    THEN [value |-> body.items, msgs |-> <<>>]
    ELSE IF body.kind = "object" /\ "results" \in body.keys
    THEN [value |-> body.items, msgs |-> <<>>]
    ELSE [value |-> <<>>, msgs |-> <<>>]

\* fetch_sbir_awards indexing data['results'] without testing for the key:
\* the KeyError lands in the except branch
FetchResultUnguardedKey(body) ==
    IF ~JsonDecodes(body)
    THEN [value |-> <<>>, msgs |-> <<"error">>]
    ELSE IF body.kind = "array"
    THEN [value |-> body.items, msgs |-> <<>>]
    ELSE IF "results" \in body.keys
    THEN [value |-> body.results, msgs |-> <<>>]
    ELSE [value |-> <<>>, msgs |-> <<"error">>]

\* The body of fetch_sbir_awards after requests.get has returned:
\* the value returned and the st.error elements emitted.
FetchResult(body) ==
    IF ~JsonDecodes(body)
    THEN [value |-> <<>>, msgs |-> <<"error">>]
    ELSE IF body.kind = "array"
    THEN [value |-> body.items, msgs |-> <<>>]
    ELSE IF body.kind = "object" /\ "results" \in body.keys
    THEN [value |-> body.results, msgs |-> <<>>]
    ELSE [value |-> <<>>, msgs |-> <<>>]

-----------------------------------------------------------------------------
(* pandas *)

\* pd.DataFrame(list of dicts): a column per key seen in any record, a row
\* per record under its position as index label, NaN where a record has no
\* such key.
DataFrame(records) ==
    LET columns == UNION {DOMAIN records[i] : i \in 1..Len(records)}
    IN [columns |-> columns,
        rows |-> [i \in 1..Len(records) |->
                    [index |-> i - 1,
                     cells |-> [c \in columns |->
                                  IF c \in DOMAIN records[i]
                                  THEN records[i][c] ELSE NaN]]]]

EmptyFrame == [columns |-> {}, rows |-> <<>>]

Digits == <<"0", "1", "2", "3", "4", "5", "6", "7", "8", "9">>
IsDigit(ch) == \E d \in 1..Len(Digits) : Digits[d] = ch
DigitValue(ch) == (CHOOSE d \in 1..Len(Digits) : Digits[d] = ch) - 1
IsDigits(cs) == cs # <<>> /\ \A i \in 1..Len(cs) : IsDigit(cs[i])

RECURSIVE DigitsValue(_)
DigitsValue(cs) ==
    IF cs = <<>> THEN 0
    ELSE DigitsValue(SubSeq(cs, 1, Len(cs) - 1)) * Len(Digits) + DigitValue(cs[Len(cs)])

\* to_numeric with errors='ignore': what does not parse is left as it is
ToNumericCellIgnore(v) ==
    CASE v.kind = "num" -> v
      [] v.kind = "str" ->
            IF IsDigits(v.s) THEN Num(DigitsValue(v.s))
            ELSE IF Len(v.s) > 1 /\ v.s[1] = "-" /\ IsDigits(Tail(v.s))
            THEN Num(0 - DigitsValue(Tail(v.s)))
            ELSE IF Len(v.s) > 1 /\ v.s[1] = "+" /\ IsDigits(Tail(v.s))
            THEN Num(DigitsValue(Tail(v.s)))
            ELSE v
      [] OTHER -> NaN

\* pd.to_numeric(..., errors='coerce') on one cell: a number stays, text that
\* is an optionally signed run of digits becomes its value, anything else
\* (other text, None, NaN) becomes NaN.
ToNumericCell(v) ==
    CASE v.kind = "num" -> v
      [] v.kind = "str" ->
            IF IsDigits(v.s) THEN Num(DigitsValue(v.s))
            ELSE IF Len(v.s) > 1 /\ v.s[1] = "-" /\ IsDigits(Tail(v.s))
            THEN Num(0 - DigitsValue(Tail(v.s)))
            ELSE IF Len(v.s) > 1 /\ v.s[1] = "+" /\ IsDigits(Tail(v.s))
            THEN Num(DigitsValue(Tail(v.s)))
            ELSE NaN
      [] OTHER -> NaN

\* df['award_amount'] = pd.to_numeric(df['award_amount'], errors='coerce')
ToNumeric(frame) ==
    [frame EXCEPT !.rows =
        [i \in 1..Len(frame.rows) |->
            [frame.rows[i] EXCEPT !.cells["award_amount"] = ToNumericCell(@)]]]

\* a filter that lets rows with a missing cell through
IsinKeepsMissing(v, values) == IsNA(v) \/ (v.kind = "str" /\ v.s \in values)

\* Series.isin(values) on one cell; the selected values are strings
Isin(v, values) == v.kind = "str" /\ v.s \in values

\* df[df[col].isin(values)]: the rows whose cell is among the values, in order
SelectIsin(frame, col, values) ==
    [frame EXCEPT !.rows = SelectSeq(frame.rows, LAMBDA r : Isin(r.cells[col], values))]

\* sum(skipna=False): one NaN cell makes the sum NaN
RECURSIVE SeriesSumNoSkip(_)
SeriesSumNoSkip(rows) ==
    IF rows = <<>> THEN Num(0)
    ELSE LET rest == SeriesSumNoSkip(Tail(rows))
             cell == Head(rows).cells["award_amount"]
         IN IF cell.kind = "num" /\ rest.kind = "num" THEN Num(cell.n + rest.n) ELSE NaN

\* sum(min_count=1): the sum of no numeric cell is NaN
RECURSIVE SeriesSumMinCount(_)
SeriesSumMinCount(rows) ==
    IF rows = <<>> THEN NaN
    ELSE LET rest == SeriesSumMinCount(Tail(rows))
             cell == Head(rows).cells["award_amount"]
         IN IF cell.kind = "num"
            THEN Num(cell.n + (IF rest.kind = "num" THEN rest.n ELSE 0))
            ELSE rest

\* Series.sum() of the award_amount cells of rows: NaN cells are skipped,
\* and the sum of no cells is 0
RECURSIVE SeriesSum(_)
SeriesSum(rows) ==
    IF rows = <<>> THEN Num(0)
    ELSE LET rest == SeriesSum(Tail(rows))
             cell == Head(rows).cells["award_amount"]
         IN IF cell.kind = "num" THEN Num(cell.n + rest.n) ELSE rest

\* df.groupby(col)['award_amount'].sum().reset_index(): one row per distinct
\* non-missing value of col (groupby drops rows whose key is missing), with
\* the sum of the award_amount cells of the rows having it.  The order of
\* the rows is not modelled.
GroupBySum(frame, col) ==
    LET keys == {frame.rows[i].cells[col] : i \in 1..Len(frame.rows)}
    IN {[key |-> k,
         award_amount |-> SeriesSum(SelectSeq(frame.rows, LAMBDA r : r.cells[col] = k))]
            : k \in {v \in keys : ~IsNA(v)}}

\* df[[...columns...]]
SelectColumns(frame, cols) ==
    [columns |-> cols,
     rows |-> [i \in 1..Len(frame.rows) |->
                 [frame.rows[i] EXCEPT !.cells = [c \in cols |-> frame.rows[i].cells[c]]]]]

-----------------------------------------------------------------------------
(* The script *)

\* company names typed into the sidebar
CompanyNames == {"ExampleCompany"}
SessionNames == {"ExampleCompany", "Acme"}

\* options of the agency multiselect
AgencyOptions ==
    {DOD, <<"H", "H", "S">>, <<"N", "A", "S", "A">>, NSF, <<"D", "O", "E">>,
     <<"U", "S", "D", "A">>, EPA, <<"D", "O", "C">>, <<"E", "D">>,
     <<"D", "O", "T">>, <<"D", "H", "S">>}
\* the selections the model follows: an agency the served awards name and
\* one they do not
AgencySelections == {sel \in SUBSET AgencyOptions : sel \subseteq {DOD, EPA}}

\* options of the phase multiselect
PhaseOptions == {PhaseI, PhaseII}
PhaseSelections == SUBSET PhaseOptions

NotCached == [cached |-> FALSE, value |-> <<>>, msgs |-> <<>>]

\* The names of a fresh script run: nothing assigned yet.
FreshRun(c, af, pf) ==
    /\ pc' = "fetch"
    /\ company_name' = c
    /\ agency_filter' = af
    /\ phase_filter' = pf
    /\ response' = NoResponse
    /\ data' = <<>>
    /\ df' = EmptyFrame
    /\ total_awarded' = NaN
    /\ total_projects' = 0
    /\ state_summary' = {}
    /\ agency_summary' = {}
    /\ phase_summary' = {}
    /\ table' = EmptyFrame
    /\ bound' = {}
    /\ messages' = <<>>
    /\ exception' = "none"

\* The first run: the text input's default, nothing selected.
Init ==
    /\ cache = [c \in SessionNames |-> NotCached]
    /\ requests = [c \in SessionNames |-> 0]
    /\ pc = "fetch"
    /\ company_name = "ExampleCompany"
    /\ agency_filter = {}
    /\ phase_filter = {}
    /\ response = NoResponse
    /\ data = <<>>
    /\ df = EmptyFrame
    /\ total_awarded = NaN
    /\ total_projects = 0
    /\ state_summary = {}
    /\ agency_summary = {}
    /\ phase_summary = {}
    /\ table = EmptyFrame
    /\ bound = {}
    /\ messages = <<>>
    /\ exception = "none"

\* A widget changes after a run has ended: the script runs again from the top.
Rerun(c, af, pf) ==
    /\ pc \in {"done", "error"}
    /\ FreshRun(c, af, pf)
    /\ UNCHANGED <<cache, requests>>

\* data = fetch_sbir_awards(company_name), the name already memoized: the
\* stored value is returned and the stored st.error elements are shown again;
\* no request goes out.
FetchHit ==
    /\ pc = "fetch"
    /\ cache[company_name].cached
    /\ data' = cache[company_name].value
    /\ messages' = messages \o cache[company_name].msgs
    /\ bound' = bound \cup {"data"}
    /\ pc' = "check"
    /\ UNCHANGED <<cache, requests, company_name, agency_filter, phase_filter,
                   response, df, total_awarded, total_projects, state_summary,
                   agency_summary, phase_summary, table, exception>>

\* data = fetch_sbir_awards(company_name), the name not memoized: the
\* function body runs.  requests.get is outside the try block, so a network
\* failure leaves the function, and the script, as an exception and nothing
\* is stored; otherwise the returned value is stored with its messages.
FetchMiss(o) ==
    /\ pc = "fetch"
    /\ ~cache[company_name].cached
    /\ requests[company_name] < MaxRequests
    /\ requests' = [requests EXCEPT ![company_name] = @ + 1]
    /\ response' = o
    /\ IF o.net = "fail"
       THEN /\ exception' = "ConnectionError"
            /\ pc' = "error"
            /\ UNCHANGED <<cache, data, messages, bound>>
       ELSE LET r == FetchResult(o.body)
            IN /\ cache' = [cache EXCEPT ![company_name] =
                               [cached |-> TRUE, value |-> r.value, msgs |-> r.msgs]]
               /\ data' = r.value
               /\ messages' = messages \o r.msgs
               /\ bound' = bound \cup {"data"}
               /\ pc' = "check"
               /\ UNCHANGED exception
    /\ UNCHANGED <<company_name, agency_filter, phase_filter, df, total_awarded,
                   total_projects, state_summary, agency_summary, phase_summary,
                   table>>

\* if not data: st.warning(...) and the script ends; else the pipeline runs
CheckData ==
    /\ pc = "check"
    /\ IF data = <<>>
       THEN /\ messages' = Append(messages, "warning")
            /\ pc' = "done"
       ELSE /\ pc' = "prepare"
            /\ UNCHANGED messages
    /\ UNCHANGED <<cache, requests, company_name, agency_filter, phase_filter,
                   response, data, df, total_awarded, total_projects,
                   state_summary, agency_summary, phase_summary, table, bound,
                   exception>>

\* df = pd.DataFrame(data); df['award_amount'] = pd.to_numeric(...)
Prepare ==
    /\ pc = "prepare"
    /\ LET frame == DataFrame(data)
       IN IF "award_amount" \in frame.columns
          THEN /\ df' = ToNumeric(frame)
               /\ pc' = "filter"
               /\ UNCHANGED exception
          ELSE /\ df' = frame
               /\ pc' = "error"
               /\ exception' = "KeyError"
    /\ bound' = bound \cup {"df"}
    /\ UNCHANGED <<cache, requests, company_name, agency_filter, phase_filter,
                   response, data, total_awarded, total_projects, state_summary,
                   agency_summary, phase_summary, table, messages>>

\* if agency_filter: df = df[df['agency'].isin(agency_filter)]
\* if phase_filter:  df = df[df['phase'].isin(phase_filter)]
Filter ==
    /\ pc = "filter"
    /\ LET agencyMissing == agency_filter # {} /\ "agency" \notin df.columns
           byAgency == IF agency_filter # {} /\ ~agencyMissing
                       THEN SelectIsin(df, "agency", agency_filter) ELSE df
           phaseMissing == phase_filter # {} /\ "phase" \notin df.columns
       IN IF agencyMissing \/ phaseMissing
          THEN /\ df' = byAgency
               /\ pc' = "error"
               /\ exception' = "KeyError"
          ELSE /\ df' = IF phase_filter # {}
                        THEN SelectIsin(byAgency, "phase", phase_filter)
                        ELSE byAgency
               /\ pc' = "kpi"
               /\ UNCHANGED exception
    /\ UNCHANGED <<cache, requests, company_name, agency_filter, phase_filter,
                   response, data, total_awarded, total_projects, state_summary,
                   agency_summary, phase_summary, table, bound, messages>>

\* total_awarded = df['award_amount'].sum(); total_projects = len(df)
KPIs ==
    /\ pc = "kpi"
    /\ total_awarded' = SeriesSum(df.rows)
    /\ total_projects' = Len(df.rows)
    /\ bound' = bound \cup {"total_awarded", "total_projects"}
    /\ pc' = "state"
    /\ UNCHANGED <<cache, requests, company_name, agency_filter, phase_filter,
                   response, data, df, state_summary, agency_summary,
                   phase_summary, table, messages, exception>>

\* if 'state' in df.columns: state_summary = df.groupby('state')[...].sum()...
StateMap ==
    /\ pc = "state"
    /\ IF "state" \in df.columns
       THEN /\ state_summary' = GroupBySum(df, "state")
            /\ bound' = bound \cup {"state_summary"}
       ELSE UNCHANGED <<state_summary, bound>>
    /\ pc' = "agency"
    /\ UNCHANGED <<cache, requests, company_name, agency_filter, phase_filter,
                   response, data, df, total_awarded, total_projects,
                   agency_summary, phase_summary, table, messages, exception>>

\* agency_summary = df.groupby('agency')['award_amount'].sum().reset_index()
AgencyBreakdown ==
    /\ pc = "agency"
    /\ IF "agency" \in df.columns
       THEN /\ agency_summary' = GroupBySum(df, "agency")
            /\ bound' = bound \cup {"agency_summary"}
            /\ pc' = "phase"
            /\ UNCHANGED exception
       ELSE /\ pc' = "error"
            /\ exception' = "KeyError"
            /\ UNCHANGED <<agency_summary, bound>>
    /\ UNCHANGED <<cache, requests, company_name, agency_filter, phase_filter,
                   response, data, df, total_awarded, total_projects,
                   state_summary, phase_summary, table, messages>>

\* phase_summary = df.groupby('phase')['award_amount'].sum().reset_index()
PhaseBreakdown ==
    /\ pc = "phase"
    /\ IF "phase" \in df.columns
       THEN /\ phase_summary' = GroupBySum(df, "phase")
            /\ bound' = bound \cup {"phase_summary"}
            /\ pc' = "table"
            /\ UNCHANGED exception
       ELSE /\ pc' = "error"
            /\ exception' = "KeyError"
            /\ UNCHANGED <<phase_summary, bound>>
    /\ UNCHANGED <<cache, requests, company_name, agency_filter, phase_filter,
                   response, data, df, total_awarded, total_projects,
                   state_summary, agency_summary, table, messages>>

\* st.dataframe(df[['agency', 'phase', 'program', 'award_amount',
\*                  'award_year', 'city', 'state']])
DataTable ==
    /\ pc = "table"
    /\ IF TableColumns \subseteq df.columns
       THEN /\ table' = SelectColumns(df, TableColumns)
            /\ bound' = bound \cup {"table"}
            /\ pc' = "done"
            /\ UNCHANGED exception
       ELSE /\ pc' = "error"
            /\ exception' = "KeyError"
            /\ UNCHANGED <<table, bound>>
    /\ UNCHANGED <<cache, requests, company_name, agency_filter, phase_filter,
                   response, data, df, total_awarded, total_projects,
                   state_summary, agency_summary, phase_summary, messages>>

\* One company name, responses carrying up to MaxLen award objects.
Next ==
    \/ \E c \in CompanyNames, af \in AgencySelections, pf \in PhaseSelections :
          Rerun(c, af, pf)
    \/ FetchHit
    \/ \E o \in OutcomesOf(AwardLists) : FetchMiss(o)
    \/ CheckData
    \/ Prepare
    \/ Filter
    \/ KPIs
    \/ StateMap
    \/ AgencyBreakdown
    \/ PhaseBreakdown
    \/ DataTable

Spec == Init /\ [][Next]_vars

\* Two company names, responses carrying at most one award object.
NextSession ==
    \/ \E c \in SessionNames, af \in {{}, {EPA}} : Rerun(c, af, {})
    \/ FetchHit
    \/ \E o \in OutcomesOf(SessionLists) : FetchMiss(o)
    \/ CheckData
    \/ Prepare
    \/ Filter
    \/ KPIs
    \/ StateMap
    \/ AgencyBreakdown
    \/ PhaseBreakdown
    \/ DataTable

SpecSession == Init /\ [][NextSession]_vars

-----------------------------------------------------------------------------
(* Properties *)

Shown(level) == \E i \in 1..Len(messages) : messages[i] = level

\* the fetch of this run went out and was answered or failed
Requested == response.net # "none"

\* the response could not be used: the request failed or the body is no JSON
FetchFailed == response.net = "fail" \/ ~JsonDecodes(response.body)

\* C1: whatever the request met (network failure, non-JSON body, decoding
\* failure), fetch_sbir_awards returns the empty sequence with an error
\* reported, and no exception leaves it.
C1_FetchErrorsRecovered ==
    (Requested /\ FetchFailed) =>
        /\ exception = "none"
        /\ "data" \in bound
        /\ data = <<>>
        /\ Shown("error")

\* ---- the filter as the specification states it, over the fetched records

Selected(rec, field, selection) ==
    selection = {}
        \/ (field \in DOMAIN rec /\ rec[field].kind = "str" /\ rec[field].s \in selection)

Keeps(rec) ==
    Selected(rec, "agency", agency_filter) /\ Selected(rec, "phase", phase_filter)

\* positions of the fetched records the selected filters keep
KeptPositions == {i \in 1..Len(data) : Keeps(data[i])}

\* the filters have been applied to df in this run
Filtered ==
    /\ "df" \in bound
    /\ \/ pc \in {"kpi", "state", "agency", "phase", "table", "done"}
       \/ pc = "error" /\ "total_awarded" \in bound

\* C2: the filtered frame holds exactly the records the agency and phase
\* selections keep (an empty selection keeps all), each once and in the
\* order of the input.
C2_FilterSelection ==
    Filtered =>
        /\ {df.rows[k].index + 1 : k \in 1..Len(df.rows)} = KeptPositions
        /\ \A j, k \in 1..Len(df.rows) : j < k => df.rows[j].index < df.rows[k].index
        /\ \A k \in 1..Len(df.rows) :
              LET rec == data[df.rows[k].index + 1]
              IN \A c \in DOMAIN rec \ {"award_amount"} : df.rows[k].cells[c] = rec[c]
        /\ (agency_filter = {} /\ phase_filter = {}) => Len(df.rows) = Len(data)

C2_Witness ==
    /\ pc = "done"
    /\ "table" \in bound
    /\ agency_filter = {DOD}
    /\ Len(data) = 2
    /\ Len(df.rows) = 1
    /\ df.rows[1].index = 1

RECURSIVE SumAmounts(_)
SumAmounts(groups) ==
    IF groups = {} THEN 0
    ELSE LET g == CHOOSE x \in groups : TRUE
         IN g.award_amount.n + SumAmounts(groups \ {g})

\* every step of the pipeline has run
Completed == pc = "done" /\ "table" \in bound

\* C3: total_awarded equals the sum of the group amounts of the state
\* grouping, of the agency grouping and of the phase grouping.
C3_SumConservation ==
    Completed =>
        /\ total_awarded.kind = "num"
        /\ SumAmounts(state_summary) = total_awarded.n
        /\ SumAmounts(agency_summary) = total_awarded.n
        /\ SumAmounts(phase_summary) = total_awarded.n

\* C4: at most one request goes out per company name.
C4_OneRequestPerName == \A c \in SessionNames : requests[c] <= 1

MalformedBodies == {EmptyBody, NotJsonBody, ErrorObject}

Malformed == response.net = "ok" /\ response.body \in MalformedBodies

\* C5 as stated: every malformed body gives the empty sequence and a
\* reported error.
C5_MalformedReported == Malformed => (data = <<>> /\ Shown("error"))

\* C5 as amended: every malformed body gives the empty sequence; the empty
\* body and the text "not json" also give a reported error, the JSON object
\* {"error": "x"} gives none.
C5_MalformedEmpty ==
    Malformed =>
        /\ "data" \in bound
        /\ data = <<>>
        /\ exception = "none"
        /\ Shown("error") <=> response.body # ErrorObject

C5_Witness ==
    /\ pc = "done"
    /\ response = Received(ErrorObject)
    /\ messages = <<"warning">>

\* ---- amounts as the specification counts them, over the fetched records

NotAvailable == Str(<<"N", "/", "A">>)

\* what a fetched record adds to a sum: nothing when its amount is the text
\* N/A, is absent or does not parse
Contribution(rec) ==
    IF "award_amount" \notin DOMAIN rec THEN 0
    ELSE IF rec["award_amount"] = NotAvailable THEN 0
    ELSE IF ToNumericCell(rec["award_amount"]).kind = "num"
    THEN ToNumericCell(rec["award_amount"]).n
    ELSE 0

RECURSIVE SumContributions(_)
SumContributions(positions) ==
    IF positions = {} THEN 0
    ELSE LET i == CHOOSE x \in positions : TRUE
         IN Contribution(data[i]) + SumContributions(positions \ {i})

GroupPositions(field, key) ==
    {i \in KeptPositions : field \in DOMAIN data[i] /\ data[i][field] = key}

GroupsAsCounted(summary, field) ==
    \A g \in summary : g.award_amount = Num(SumContributions(GroupPositions(field, g.key)))

\* C6: a record whose amount does not parse is kept and counted in
\* total_projects, and adds nothing to total_awarded or to the sum of its
\* state, agency or phase group.
C6_UnparseableCounted ==
    (Filtered /\ "total_awarded" \in bound) =>
        /\ total_projects = Cardinality(KeptPositions)
        /\ total_awarded = Num(SumContributions(KeptPositions))
        /\ "state_summary" \in bound => GroupsAsCounted(state_summary, "state")
        /\ "agency_summary" \in bound => GroupsAsCounted(agency_summary, "agency")
        /\ "phase_summary" \in bound => GroupsAsCounted(phase_summary, "phase")

C6_Witness ==
    /\ Completed
    /\ data = <<ScenarioDOD, UnparseableAward>>
    /\ agency_filter = {DOD}
    /\ total_projects = 2
    /\ total_awarded = Num(50000)
    /\ [key |-> Str(TX), award_amount |-> Num(0)] \in state_summary

\* award_amount has been normalised in df
Normalised == "df" \in bound /\ "award_amount" \in df.columns

AmountsOf(frame) ==
    {frame.rows[k].cells["award_amount"] : k \in 1..Len(frame.rows)}

\* C7 as stated: after normalisation every award_amount is a non-negative
\* number or the missing marker.
C7_AmountNonNegative ==
    Normalised =>
        \A v \in AmountsOf(df) : v.kind = "nan" \/ (v.kind = "num" /\ v.n >= 0)

\* C7 as amended: after normalisation every award_amount, in df and in the
\* table, is a number or the missing marker, never text.
C7_AmountNumericOrMissing ==
    /\ Normalised => \A v \in AmountsOf(df) : v.kind \in {"num", "nan"}
    /\ "table" \in bound => \A v \in AmountsOf(table) : v.kind \in {"num", "nan"}

C7_Witness ==
    /\ Completed
    /\ data = <<UnparseableAward, NegativeAward>>
    /\ AmountsOf(table) = {NaN, Num(0 - 100)}

\* the run is over and its fetch returned
Ended == pc \in {"done", "error"} /\ "data" \in bound

Summaries == {"state_summary", "agency_summary", "phase_summary"}

SummaryOf(name) ==
    CASE name = "state_summary" -> state_summary
      [] name = "agency_summary" -> agency_summary
      [] name = "phase_summary" -> phase_summary

\* C8 as stated: with no record left after filtering the pipeline gives
\* total_awarded = 0, total_projects = 0 and three empty summaries, without
\* an error.
C8_EmptyGivesZeroKPIs ==
    (Ended /\ KeptPositions = {}) =>
        /\ exception = "none"
        /\ {"total_awarded", "total_projects"} \cup Summaries \subseteq bound
        /\ total_awarded = Num(0)
        /\ total_projects = 0
        /\ \A name \in Summaries : SummaryOf(name) = {}

\* C8 as amended: when nothing was fetched the run shows the no-data
\* warning, computes no KPI and no summary and raises nothing; when the
\* filters exclude every fetched record, every KPI computed is 0 and every
\* summary computed is empty, and the run completes unless one of the table
\* columns occurs in no fetched record, where it stops with a KeyError.
C8_EmptyFilteredSet ==
    (Ended /\ KeptPositions = {}) =>
        IF data = <<>>
        THEN /\ exception = "none"
             /\ bound = {"data"}
             /\ Shown("warning")
        ELSE /\ "total_awarded" \in bound => total_awarded = Num(0)
             /\ "total_projects" \in bound => total_projects = 0
             /\ \A name \in Summaries : name \in bound => SummaryOf(name) = {}
             /\ IF TableColumns \subseteq DataFrame(data).columns
                THEN exception = "none" /\ Completed /\ Summaries \subseteq bound
                     /\ table.rows = <<>>
                ELSE exception = "KeyError"

C8_Witness ==
    /\ Completed
    /\ data = <<ScenarioDOD, ScenarioNSF>>
    /\ agency_filter = {EPA}
    /\ total_awarded = Num(0)
    /\ total_projects = 0
    /\ agency_summary = {}

\* C9: normalisation, filtering, KPIs, grouping and the table complete
\* without an error for every fetched sequence and every selection.
C9_AggregationTotal == "data" \in bound => exception = "none"

\* C10: the JSON array L and the JSON object {"results": L} make
\* fetch_sbir_awards return the same sequence of records.
C10_ShapeTolerance ==
    (response.net = "ok" /\ "data" \in bound) =>
        /\ response.body.kind = "array" =>
              /\ data = response.body.items
              /\ data = FetchResult(ResultsObject(response.body.items)).value
        /\ (response.body.kind = "object" /\ "results" \in response.body.keys) =>
              /\ data = response.body.results
              /\ data = FetchResult(BareList(response.body.results)).value

C10_Witness ==
    /\ pc = "check"
    /\ response = Received(ResultsObject(<<ScenarioNSF, ScenarioDOD>>))
    /\ data = <<ScenarioNSF, ScenarioDOD>>

====
